---- MODULE Spec2Model ----
(***************************************************************************)
(* Lifecycle of the glutin example application (glutin_examples/src/lib.rs)*)
(* App implements winit's ApplicationHandler; every handler is one action. *)
(* A handler that hits a failing unwrap/expect/assert panics: the process  *)
(* is then gone (phase = "panicked") and no further event is delivered.    *)
(***************************************************************************)
EXTENDS Integers, Sequences, FiniteSets, TLC

\* ---------------------------------------------------------------- bounds
MaxResumed == 2      \* resumed events delivered in one run
MaxConfigs == 1      \* configs the display offers to the picker
MaxSamples == 1      \* largest sample count of a config
MaxDim == 1          \* largest width/height of a Resized event
MaxErr == 2          \* distinct errors the platform can return
MaxPickLen == 3      \* configs given to the picker when it is run on its own
MaxPickLog == 3      \* sample counts 0 and 2^k, k up to this, for those configs

\* ---------------------------------------------------------------- Option
None == <<>>
Some(x) == <<x>>
IsSome(o) == o # <<>>
IsNone(o) == o = <<>>
Unwrap(o) == o[1]

\* ---------------------------------------------------------------- Result
Ok == [tag |-> "Ok"]
Err(e) == [tag |-> "Err", err |-> e]
Errors == 1..MaxErr

\* ---------------------------------------------------------------- Config
\* glutin Config as the picker sees it: num_samples() and
\* supports_transparency(), an Option<bool>.
Transparency == {"yes", "no", "unknown"}
Config == [samples : 0..MaxSamples, transparency : Transparency]
ConfigSeqs == UNION {[1..n -> Config] : n \in 0..MaxConfigs}

\* supports_transparency().unwrap_or(false)
SupportsTransparency(c) == c.transparency = "yes"

\* Mutant of PickStep: a transparent accumulator is only replaced by a
\* transparent config.
PickStepSticky(accum, config) ==
    IF SupportsTransparency(config) /\ ~SupportsTransparency(accum) THEN config
    ELSE IF SupportsTransparency(accum) /\ ~SupportsTransparency(config) THEN accum
    ELSE IF config.samples > accum.samples THEN config
    ELSE accum

\* the closure given to reduce
PickStep(accum, config) ==
    LET transparency_check ==
            SupportsTransparency(config) /\ ~SupportsTransparency(accum)
    IN  IF transparency_check \/ config.samples > accum.samples
        THEN config
        ELSE accum

\* Iterator::reduce: None on an empty iterator, else the left fold from the
\* first element.
RECURSIVE Fold(_, _, _)
Fold(accum, configs, i) ==
    IF i > Len(configs) THEN accum
    ELSE Fold(PickStep(accum, configs[i]), configs, i + 1)

Reduce(configs) ==
    IF configs = <<>> THEN None ELSE Some(Fold(configs[1], configs, 2))

\* gl_config_picker = reduce(..).unwrap(): panics on None.
gl_config_picker(configs) == Reduce(configs)

\* ---------------------------------------------------------------- Context
\* The three attribute profiles, in the order create_gl_context tries them.
Profiles == <<"default", "gles", "legacy21">>
NumProfiles == Len(Profiles)
Attempts == [1..NumProfiles -> BOOLEAN]

\* create_gl_context: nested unwrap_or_else; the last one is an expect.
\* tried: how many create_context calls were made; ok = FALSE is the panic.
\* The context comes back as a NotCurrentContext.
RECURSIVE TryProfile(_, _)
TryProfile(attempt, i) ==
    IF attempt[i]
    THEN [ok |-> TRUE, profile |-> Profiles[i], tried |-> i, current |-> FALSE]
    ELSE IF i = NumProfiles
    THEN [ok |-> FALSE, profile |-> "none", tried |-> i, current |-> FALSE]
    ELSE TryProfile(attempt, i + 1)

\* Mutant of create_gl_context: the legacy 2.1 profile is never tried.
CreateContextNoLegacy(attempt) ==
    IF attempt[1]
    THEN [ok |-> TRUE, profile |-> Profiles[1], tried |-> 1, current |-> FALSE]
    ELSE IF attempt[2]
    THEN [ok |-> TRUE, profile |-> Profiles[2], tried |-> 2, current |-> FALSE]
    ELSE [ok |-> FALSE, profile |-> "none", tried |-> 2, current |-> FALSE]

create_gl_context(attempt) == TryProfile(attempt, 1)

ContextCalls(attempt) ==
    LET r == create_gl_context(attempt)
    IN  [i \in 1..r.tried |->
            IF attempt[i] THEN "create_context:ok" ELSE "create_context:err"]

\* ---------------------------------------------------------------- state
VARIABLES
    gl_display,      \* App.gl_display: "Builder" | "Init"
    gl_context,      \* App.gl_context: Option of [id, config, profile, backend, current]
    state,           \* App.state: Option of AppState [gl_surface, window];
                     \* a Surface is [id, config], a Window is its id
    renderer,        \* App.renderer: Option of [id, viewport]
    exit_state,      \* App.exit_state: Ok | Err(e)
    exit_requested,  \* event_loop.exit() has been called
    phase,           \* "running" | "exited" | "returned" | "panicked"
    result,          \* what main returns: "pending" | Ok | Err(e) | "panic"
    event,           \* the handler that ran last
    calls,           \* the calls the last handler made, in order
    live,            \* [surfaces, windows]: ids of the objects not yet dropped;
                     \* peak: the most Surfaces that were alive at one time
    display,         \* the Display: "none" | "created" | "terminated"
    count,           \* how often each thing happened so far (see Count0)
    lifecycle,       \* the last resumed/suspended event and how it ended (see Lifecycle)
    terminated_with, \* surfaces and windows alive when the Display was terminated
    pure             \* a run of gl_config_picker or create_gl_context on its
                     \* own: [fn, configs, attempt, out]

appvars == <<gl_display, gl_context, state, renderer, exit_state, exit_requested,
             phase, result, event, calls, live, display, count, lifecycle,
             terminated_with>>

vars == <<appvars, pure>>

Count0 ==
    [resumed |-> 0,      \* resumed events delivered
     builds |-> 0,       \* resumed calls that ran DisplayBuilder::build
     picks |-> 0,        \* resumed calls in which gl_config_picker ran
     selected |-> 0,     \* Configs that build returned
     contexts |-> 0,     \* Contexts create_gl_context returned
     currents |-> 0,     \* make_current calls that succeeded
     renderers |-> 0,    \* Renderer::new calls
     windows |-> 0,      \* Windows created
     surfaces |-> 0]     \* Surfaces created

\* The whole program state as one record, so that a handler is an operator
\* from the state before to the state after.
App ==
    [gl_display |-> gl_display, gl_context |-> gl_context, state |-> state,
     renderer |-> renderer, exit_state |-> exit_state,
     exit_requested |-> exit_requested, phase |-> phase, result |-> result,
     event |-> event, calls |-> calls, live |-> live, display |-> display, count |-> count,
     lifecycle |-> lifecycle, terminated_with |-> terminated_with]

Commit(s) ==
    /\ gl_display' = s.gl_display
    /\ gl_context' = s.gl_context
    /\ state' = s.state
    /\ renderer' = s.renderer
    /\ exit_state' = s.exit_state
    /\ exit_requested' = s.exit_requested
    /\ phase' = s.phase
    /\ result' = s.result
    /\ event' = s.event
    /\ calls' = s.calls
    /\ live' = s.live
    /\ display' = s.display
    /\ count' = s.count
    /\ lifecycle' = s.lifecycle
    /\ terminated_with' = s.terminated_with
    /\ pure' = pure

\* App::new, and main before run_app.
AppInit ==
    /\ gl_display = "Builder"
    /\ gl_context = None
    /\ state = None
    /\ renderer = None
    /\ exit_state = Ok
    /\ exit_requested = FALSE
    /\ phase = "running"
    /\ result = "pending"
    /\ event = "none"
    /\ calls = <<>>
    /\ live = [surfaces |-> {}, windows |-> {}, peak |-> 0]
    /\ display = "none"
    /\ count = Count0
    /\ lifecycle = [event |-> "none", outcome |-> "none", effective |-> "none"]
    /\ terminated_with = {}

\* No function is run on its own in the application's runs.
NoPure == [fn |-> "none", configs |-> <<>>, attempt |-> <<>>, out |-> None]

Init == AppInit /\ pure = NoPure

\* ---------------------------------------------------------------- helpers
Max(a, b) == IF a >= b THEN a ELSE b

Call(s, c) == [s EXCEPT !.calls = Append(@, c)]

\* A failing unwrap / expect / assert: the handler unwinds, the process dies.
Panic(s) == [s EXCEPT !.phase = "panicked", !.result = "panic",
                      !.calls = Append(@, "panic")]

\* event_loop.exit()
Exit(s) == [Call(s, "exit") EXCEPT !.exit_requested = TRUE]

\* Dropping a Surface, a Window.
DropSurface(s, id) ==
    [Call(s, "drop_surface") EXCEPT !.live.surfaces = @ \ {id}]
DropWindow(s, id) ==
    [Call(s, "drop_window") EXCEPT !.live.windows = @ \ {id}]

\* Mutant of DropAppState: the window field is declared, and dropped, first.
DropAppStateWindowFirst(s, st) ==
    DropSurface(DropWindow(s, st.window), st.gl_surface.id)

\* Dropping an AppState drops its fields in declaration order: gl_surface,
\* then window.
DropAppState(s, st) == DropWindow(DropSurface(s, st.gl_surface.id), st.window)

\* Mutant of ClearState: the AppState is left where it is.
ClearStateKeeps(s) == s

\* self.state = None
ClearState(s) ==
    IF IsSome(s.state)
    THEN [DropAppState(s, Unwrap(s.state)) EXCEPT !.state = None]
    ELSE s

\* The record of the lifecycle events: the last one, how it ended ("ok", "err":
\* it recorded an error and asked for the exit, "panic"), and the last one
\* that ended "ok".
Lifecycle(s, ev, outcome) ==
    [event |-> ev, outcome |-> outcome,
     effective |-> IF outcome = "ok" THEN ev ELSE s.lifecycle.effective]

\* Entry of a handler: a fresh record of calls.
Enter(s, handler) == [s EXCEPT !.event = handler, !.calls = <<>>]

NewWindow(s) ==
    [s EXCEPT !.count.windows = @ + 1, !.live.windows = @ \cup {s.count.windows + 1}]

\* ---------------------------------------------------------------- resumed
\* DisplayBuilder::build(event_loop, template, gl_config_picker): creates the
\* Display, hands the configs it finds to the picker, then creates the Window.
\* b is what the platform does: [kind, err, configs, backend].
DisplayBuilder_build(b) ==
    IF b.kind = "display_err"
    THEN [panic |-> FALSE, picker_ran |-> FALSE, result |-> Err(b.err),
          config |-> None, calls |-> <<"create_display:err">>]
    ELSE LET picked == gl_config_picker(b.configs)
         IN  IF IsNone(picked)
             THEN [panic |-> TRUE, picker_ran |-> TRUE, result |-> Ok,
                   config |-> None,
                   calls |-> <<"create_display:ok", "gl_config_picker">>]
             ELSE IF b.kind = "window_err"
             THEN [panic |-> FALSE, picker_ran |-> TRUE, result |-> Err(b.err),
                   config |-> None,
                   calls |-> <<"create_display:ok", "gl_config_picker",
                               "create_window:err">>]
             ELSE [panic |-> FALSE, picker_ran |-> TRUE, result |-> Ok,
                   config |-> picked,
                   calls |-> <<"create_display:ok", "gl_config_picker",
                               "create_window:ok">>]

\* Mutant of RecordError: the display is marked as built before the error
\* is looked at.
RecordErrorMarksInit(s, res) ==
    [Exit([s EXCEPT !.exit_state = res]) EXCEPT !.gl_display = "Init"]

\* The Err arms of resumed: self.exit_state = Err(err); event_loop.exit(); return
RecordError(s, res) == Exit([s EXCEPT !.exit_state = res])

\* Mutant of GetOrInsertRenderer: a Renderer is constructed in every resumed.
InsertRendererAlways(s) ==
    [Call(s, "Renderer::new") EXCEPT
        !.renderer = Some([id |-> s.count.renderers + 1, viewport |-> <<0, 0>>]),
        !.count.renderers = @ + 1]

\* Mutant of GetOrInsertRenderer: no Renderer is constructed.
InsertRendererNever(s) == s

\* self.renderer.get_or_insert_with(|| Renderer::new(..))
GetOrInsertRenderer(s) ==
    IF IsSome(s.renderer) THEN s
    ELSE [Call(s, "Renderer::new") EXCEPT
            !.renderer = Some([id |-> s.count.renderers + 1, viewport |-> <<0, 0>>]),
            !.count.renderers = @ + 1]

\* Mutant of SetSwapInterval: a vsync failure is handled as a creation error.
SetSwapIntervalFatal(s, fail) ==
    IF fail = "vsync_err"
    THEN RecordError(Call(s, "set_swap_interval:err"), Err(1))
    ELSE Call(s, "set_swap_interval:ok")

\* if let Err(res) = gl_surface.set_swap_interval(..) { eprintln!(..) }
SetSwapInterval(s, fail) ==
    IF fail = "vsync_err"
    THEN Call(Call(s, "set_swap_interval:err"), "eprintln")
    ELSE Call(s, "set_swap_interval:ok")

\* assert!(self.state.replace(AppState { gl_surface, window }).is_none())
\* The new AppState is stored first; the old one, if any, is dropped when the
\* condition has been evaluated, and then the assert fails.
StoreAppState(s, new) ==
    LET old == s.state
        s1 == [s EXCEPT !.state = Some(new)]
    IN  IF IsSome(old) THEN Panic(DropAppState(s1, Unwrap(old))) ELSE s1

\* Mutant of MakeCurrent: the context is not made current.
MakeCurrentSkipped(s) ==
    [Call(s, "make_current:ok") EXCEPT !.count.currents = @ + 1]

\* gl_context.make_current(&gl_surface).unwrap(), the Ok case
MakeCurrent(s) ==
    [Call(s, "make_current:ok") EXCEPT
        !.gl_context = Some([Unwrap(@) EXCEPT !.current = TRUE]),
        !.count.currents = @ + 1]

\* The places resumed can fail at after the window exists, in code order.
Tails == {"attrs_err", "surface_err", "make_current_err", "vsync_err", "ok"}

\* From build_surface_attributes to the end of resumed. window is the local
\* that owns the Window; a panic unwinds and drops the locals in reverse
\* order of declaration (gl_surface, then window).
ResumedTail(s, window, gl_config, fail) ==
    IF fail = "attrs_err"
    THEN DropWindow(Panic(Call(s, "build_surface_attributes:err")), window)
    ELSE IF fail = "surface_err"
    THEN DropWindow(Panic(Call(s, "create_window_surface:err")), window)
    ELSE
        LET gl_surface == [id |-> s.count.surfaces + 1, config |-> gl_config]
            s1 == [Call(s, "create_window_surface:ok") EXCEPT
                     !.count.surfaces = gl_surface.id,
                     !.live.surfaces = @ \cup {gl_surface.id},
                     !.live.peak = Max(@, Cardinality(s.live.surfaces) + 1)]
        IN  IF IsNone(s1.gl_context)
            THEN DropWindow(DropSurface(Panic(s1), gl_surface.id), window)
            ELSE IF fail = "make_current_err"
            THEN DropWindow(DropSurface(Panic(Call(s1, "make_current:err")),
                                        gl_surface.id), window)
            ELSE StoreAppState(
                    SetSwapInterval(GetOrInsertRenderer(MakeCurrent(s1)), fail),
                    [gl_surface |-> gl_surface, window |-> window])

\* Mutant of MarkInit: the display stays marked as not built.
MarkInitForgotten(s) == s

\* self.gl_display = GlDisplayCreationState::Init
MarkInit(s) == [s EXCEPT !.gl_display = "Init"]

\* GlDisplayCreationState::Builder arm
ResumedBuilder(s, in) ==
    LET b == DisplayBuilder_build(in.build)
        s1 == [s EXCEPT !.calls = @ \o b.calls,
                        !.count.builds = @ + 1,
                        !.count.picks = @ + (IF b.picker_ran THEN 1 ELSE 0)]
    IN  IF b.panic THEN Panic(s1)
        ELSE IF b.result.tag = "Err" THEN RecordError(s1, b.result)
        ELSE
            LET s2 == NewWindow([s1 EXCEPT !.count.selected = @ + 1,
                                           !.display = "created"])
                window == s2.count.windows
                gl_config == Unwrap(b.config)
                s3 == MarkInit(s2)
                c == create_gl_context(in.attempt)
                s4 == [s3 EXCEPT !.calls = @ \o ContextCalls(in.attempt)]
            IN  IF ~c.ok THEN DropWindow(Panic(s4), window)
                ELSE ResumedTail(
                        [s4 EXCEPT
                           !.gl_context = Some([id |-> s4.count.contexts + 1,
                                                config |-> gl_config,
                                                profile |-> c.profile,
                                                backend |-> in.build.backend,
                                                current |-> c.current]),
                           !.count.contexts = @ + 1],
                        window, gl_config, in.tail)

\* GlDisplayCreationState::Init arm: the config comes from the context.
ResumedInit(s, in) ==
    IF IsNone(s.gl_context) THEN Panic(s)
    ELSE IF in.finalize.tag = "Err"
    THEN RecordError(Call(s, "finalize_window:err"), in.finalize)
    ELSE LET gl_config == Unwrap(s.gl_context).config
             s1 == NewWindow(Call(s, "finalize_window:ok"))
         IN  ResumedTail(s1, s1.count.windows, gl_config, in.tail)

resumed(s, in) ==
    LET s0 == [Enter(s, "resumed") EXCEPT !.count.resumed = @ + 1]
        r == IF s0.gl_display = "Builder" THEN ResumedBuilder(s0, in)
             ELSE ResumedInit(s0, in)
        outcome == IF r.phase = "panicked" THEN "panic"
                   ELSE IF r.calls[Len(r.calls)] = "exit" THEN "err"
                   ELSE "ok"
    IN  [r EXCEPT !.lifecycle = Lifecycle(s, "resumed", outcome)]

\* What the platform can answer to one resumed call.
Backends == {"Egl", "Other"}
AllSucceed == [i \in 1..NumProfiles |-> TRUE]
NoBuild == [kind |-> "none", err |-> 1, configs |-> <<>>, backend |-> "Other"]
BuildFailures ==
    {[kind |-> "display_err", err |-> e, configs |-> <<>>, backend |-> "Other"] :
        e \in Errors}
    \cup {[kind |-> "window_err", err |-> e, configs |-> cs, backend |-> "Other"] :
            e \in Errors, cs \in ConfigSeqs}
BuildSuccesses ==
    {[kind |-> "ok", err |-> 1, configs |-> cs, backend |-> k] :
        cs \in ConfigSeqs, k \in Backends}
ResumedInputs(d) ==
    IF d = "Builder"
    THEN {[build |-> b, attempt |-> AllSucceed, finalize |-> Ok, tail |-> "ok"] :
            b \in BuildFailures}
         \cup {[build |-> b, attempt |-> a, finalize |-> Ok, tail |-> t] :
                b \in BuildSuccesses, a \in Attempts, t \in Tails}
    ELSE {[build |-> NoBuild, attempt |-> AllSucceed, finalize |-> f, tail |-> t] :
            f \in {Ok} \cup {Err(e) : e \in Errors}, t \in Tails}

Resumed ==
    /\ phase = "running"
    /\ count.resumed < MaxResumed
    /\ \E in \in ResumedInputs(gl_display) : Commit(resumed(App, in))

\* ---------------------------------------------------------------- suspended
\* self.state = None, then take the context, make it not current, put it back.
\* make_not_current consumes the context: when it fails the context is gone.
\* Mutant of PutBack: the context taken out of App is not stored again.
PutBackNothing(s, ctx) == s

\* self.gl_context = Some(..)
PutBack(s, ctx) == [s EXCEPT !.gl_context = Some(ctx)]

suspended(s, not_current_ok) ==
    LET s0 == Enter(s, "suspended")
        s1 == ClearState(s0)
        r == IF IsNone(s1.gl_context) THEN Panic(s1)
             ELSE LET ctx == Unwrap(s1.gl_context)
                      taken == [s1 EXCEPT !.gl_context = None]
                  IN  IF ~not_current_ok
                      THEN Call(Panic(Call(taken, "make_not_current:err")),
                                "drop_context")
                      ELSE PutBack(Call(taken, "make_not_current:ok"),
                                   [ctx EXCEPT !.current = FALSE])
        outcome == IF r.phase = "panicked" THEN "panic" ELSE "ok"
    IN  [r EXCEPT !.lifecycle = Lifecycle(s, "suspended", outcome)]

Suspended ==
    /\ phase = "running"
    /\ \E not_current_ok \in BOOLEAN : Commit(suspended(App, not_current_ok))

\* ---------------------------------------------------------------- window_event
Dims == 0..MaxDim
WindowEvents ==
    {[kind |-> "Resized", width |-> w, height |-> h] : w \in Dims, h \in Dims}
    \cup {[kind |-> k, width |-> 0, height |-> 0] :
            k \in {"CloseRequested", "Escape", "Other"}}

\* Mutant of Resize: the resize is done without looking at self.state.
ResizeWithoutState(s, width, height) ==
    IF IsNone(s.gl_context) THEN Panic(s)
    ELSE LET s1 == Call(s, "gl_surface.resize")
         IN  IF IsNone(s1.renderer) THEN Panic(s1)
             ELSE [Call(s1, "renderer.resize") EXCEPT
                     !.renderer = Some([Unwrap(@) EXCEPT
                                          !.viewport = <<width, height>>])]

\* The Resized arm, taken when width and height are both non-zero.
Resize(s, width, height) ==
    IF IsSome(s.state)
    THEN IF IsNone(s.gl_context) THEN Panic(s)
         ELSE LET s1 == Call(s, "gl_surface.resize")
              IN  IF IsNone(s1.renderer) THEN Panic(s1)
                  ELSE [Call(s1, "renderer.resize") EXCEPT
                          !.renderer = Some([Unwrap(@) EXCEPT
                                               !.viewport = <<width, height>>])]
    ELSE s

window_event(s, ev) ==
    LET s0 == Enter(s, "window_event")
    IN  IF ev.kind = "Resized" /\ ev.width # 0 /\ ev.height # 0
        THEN Resize(s0, ev.width, ev.height)
        ELSE IF ev.kind \in {"CloseRequested", "Escape"}
        THEN Exit(s0)
        ELSE s0

WindowEvent ==
    /\ phase = "running"
    /\ \E ev \in WindowEvents : Commit(window_event(App, ev))

\* ---------------------------------------------------------------- about_to_wait
\* Mutant of about_to_wait: the buffers are swapped before the draw.
about_to_wait_swap_first(s, swap_ok) ==
    LET s0 == Enter(s, "about_to_wait")
    IN  IF IsSome(s0.state)
        THEN IF IsNone(s0.gl_context) \/ IsNone(s0.renderer) THEN Panic(s0)
             ELSE IF swap_ok
             THEN Call(Call(Call(s0, "swap_buffers:ok"), "renderer.draw"),
                       "request_redraw")
             ELSE Panic(Call(s0, "swap_buffers:err"))
        ELSE s0

about_to_wait(s, swap_ok) ==
    LET s0 == Enter(s, "about_to_wait")
    IN  IF IsSome(s0.state)
        THEN IF IsNone(s0.gl_context) \/ IsNone(s0.renderer) THEN Panic(s0)
             ELSE LET s1 == Call(Call(s0, "renderer.draw"), "request_redraw")
                  IN  IF swap_ok THEN Call(s1, "swap_buffers:ok")
                      ELSE Panic(Call(s1, "swap_buffers:err"))
        ELSE s0

AboutToWait ==
    /\ phase = "running"
    /\ \E swap_ok \in BOOLEAN : Commit(about_to_wait(App, swap_ok))

\* ---------------------------------------------------------------- exiting
\* display.terminate(), only for an EGL display
Terminate(s) ==
    [Call(s, "display.terminate") EXCEPT
        !.display = "terminated",
        !.terminated_with = s.live.surfaces \cup s.live.windows]

\* self.state = None, then the explicit termination of an EGL display.
\* The context taken out of App is a temporary of the first statement of
\* exiting: it is dropped there, before self.state = None.
\* Mutant of ExitingTeardown: the display is terminated first.
ExitingTeardownTerminateFirst(s, backend) ==
    IF backend = "Egl" THEN ClearState(Terminate(s)) ELSE ClearState(s)

ExitingTeardown(s, backend) ==
    LET s1 == ClearState(s)
    IN  IF backend = "Egl" THEN Terminate(s1) ELSE s1

exiting(s) ==
    LET s0 == Enter(s, "exiting")
    IN  IF IsNone(s0.gl_context) THEN Panic(s0)
        ELSE LET ctx == Unwrap(s0.gl_context)
                 s1 == Call([s0 EXCEPT !.gl_context = None], "drop_context")
             IN  [ExitingTeardown(s1, ctx.backend) EXCEPT !.phase = "exited"]

\* winit delivers exiting once, last, after event_loop.exit() was called.
Exiting ==
    /\ phase = "running"
    /\ exit_requested
    /\ Commit(exiting(App))

\* ---------------------------------------------------------------- main
\* event_loop.run_app(&mut app)?; app.exit_state
main_return(s, run_app) ==
    [Enter(s, "main") EXCEPT !.phase = "returned",
              !.result = IF run_app.tag = "Err" THEN run_app ELSE s.exit_state]

EventLoopError == Err(0)

MainReturn ==
    /\ phase = "exited"
    /\ \E run_app \in {Ok, EventLoopError} : Commit(main_return(App, run_app))

Next ==
    \/ Resumed
    \/ Suspended
    \/ WindowEvent
    \/ AboutToWait
    \/ Exiting
    \/ MainReturn

Spec == Init /\ [][Next]_vars

\* ---------------------------------------------------------------- the functions
\* gl_config_picker and create_gl_context run on their own, on every input
\* within the bounds.
PickSamples == {0} \cup {2^k : k \in 0..MaxPickLog}
PickConfig == [samples : PickSamples, transparency : Transparency]
PickSeqs == UNION {[1..n -> PickConfig] : n \in 0..MaxPickLen}

PureInputs ==
    {[fn |-> "picker", configs |-> cs, attempt |-> <<>>, out |-> None] :
        cs \in PickSeqs}
    \cup {[fn |-> "factory", configs |-> <<>>, attempt |-> a, out |-> None] :
            a \in Attempts}

PureInit == AppInit /\ pure \in PureInputs

\* The picker's outcome for its caller: the Config, or the panic of unwrap.
PickerOutcome(configs) ==
    LET r == gl_config_picker(configs)
    IN  IF IsNone(r) THEN [tag |-> "Panic", config |-> None]
        ELSE [tag |-> "Ok", config |-> r]

PickerRun ==
    /\ pure.fn = "picker"
    /\ IsNone(pure.out)
    /\ pure' = [pure EXCEPT !.out = Some(PickerOutcome(pure.configs))]
    /\ UNCHANGED appvars

\* create_gl_context's outcome with the create_context calls it made.
FactoryOutcome(attempt) ==
    [res |-> create_gl_context(attempt), calls |-> ContextCalls(attempt)]

FactoryRun ==
    /\ pure.fn = "factory"
    /\ IsNone(pure.out)
    /\ pure' = [pure EXCEPT !.out = Some(FactoryOutcome(pure.attempt))]
    /\ UNCHANGED appvars

PureNext == PickerRun \/ FactoryRun

PureSpec == PureInit /\ [][PureNext]_vars

\* ================================================================ claims
Current == IsSome(gl_context) /\ Unwrap(gl_context).current

C2_StateIffCurrent == IsSome(state) <=> Current

C2_OthersChangeNeither ==
    (event' \in {"window_event", "about_to_wait"} /\ phase' = "running")
        => (state' = state /\ gl_context' = gl_context)

C3_InitStep ==
    gl_display = "Init" =>
        /\ count.builds' = count.builds
        /\ count.picks' = count.picks
        /\ (IsSome(gl_context) /\ IsSome(gl_context'))
                => Unwrap(gl_context').config = Unwrap(gl_context).config

C3_SurfaceConfig ==
    IsSome(state) =>
        /\ IsSome(gl_context)
        /\ Unwrap(state).gl_surface.config = Unwrap(gl_context).config

C4_Step ==
    /\ (IsSome(gl_context) /\ phase' # "panicked" /\ event' # "exiting")
            => (IsSome(gl_context')
                /\ Unwrap(gl_context').id = Unwrap(gl_context).id)
    /\ (event' = "suspended" /\ phase' # "panicked")
            => gl_context' = Some([Unwrap(gl_context) EXCEPT !.current = FALSE])
    /\ (event' = "exiting" /\ phase' # "panicked") => IsNone(gl_context')

\* C4: one Context at most, retained by every step as C4_Step says.
C4_OneContextRetained == [](count.contexts <= 1) /\ [][C4_Step]_vars

\* The Context of the first resumed, current again after a suspended.
C4_Witness ==
    /\ lifecycle.event = "resumed"
    /\ count.resumed = 2
    /\ count.contexts = 1
    /\ Current
    /\ Unwrap(gl_context).id = 1
    /\ Unwrap(state).gl_surface.id = 2

\* C5: exiting drops AppState before it terminates the Display: no Surface or
\* Window is alive when the Display is terminated.
C5_DropsBeforeTerminate ==
    /\ display = "terminated" => (terminated_with = {} /\ IsNone(state))
    /\ event = "exiting" =>
            \A i, j \in 1..Len(calls) :
                (calls[i] = "display.terminate"
                 /\ calls[j] \in {"drop_surface", "drop_window"}) => j < i

\* exiting from Active on EGL: surface and window dropped, then terminate.
C5_Witness ==
    /\ event = "exiting"
    /\ display = "terminated"
    /\ \E j \in 1..Len(calls) : calls[j] = "drop_surface"

\* C6: exiting runs to completion from every state it can be delivered in,
\* and the process result is then the stored exit_state (or the event loop's
\* own error).
C6_ExitingCompletes ==
    /\ event = "exiting" => phase = "exited"
    /\ phase = "returned" => result \in {exit_state, EventLoopError}

\* C7: a resumed in which a creation step fails (display or window build,
\* window re-creation, all three context profiles, surface creation) ends
\* with the error in exit_state, the exit requested, the handler returned and
\* no AppState stored.
C7_CreationFailureRecorded ==
    [][(/\ event' = "resumed"
        /\ \/ \E i \in 1..Len(calls') :
                calls'[i] \in {"create_display:err", "create_window:err",
                               "finalize_window:err", "create_window_surface:err"}
           \/ Cardinality({i \in 1..Len(calls') : calls'[i] = "create_context:err"})
                = NumProfiles)
       => (/\ exit_state'.tag = "Err"
           /\ exit_requested'
           /\ phase' = "running"
           /\ state' = state)]_vars

\* C8: a failing swap_buffers in an idle tick is stored in exit_state and the
\* exit is requested; the handler returns, so that exiting still runs.
C8_SwapFailureRecorded ==
    (event = "about_to_wait" /\ \E i \in 1..Len(calls) : calls[i] = "swap_buffers:err")
        => (exit_state.tag = "Err" /\ exit_requested /\ phase = "running")

\* C9: once exit_state holds an error, no later event replaces it.
C9_FirstErrorKept ==
    [][exit_state.tag = "Err" => exit_state' = exit_state]_vars

\* C10: a resumed in which set_swap_interval fails still stores the new
\* AppState with the Context current, leaves exit_state and the exit request
\* as they were, and returns (when no AppState was present before).
C10_Step ==
    (event' = "resumed"
     /\ \E i \in 1..Len(calls') : calls'[i] = "set_swap_interval:err")
        => (/\ IsSome(state')
            /\ Unwrap(state').gl_surface.id = count'.surfaces
            /\ Current'
            /\ exit_state' = exit_state
            /\ exit_requested' = exit_requested
            /\ (IsNone(state) => phase' = "running"))

\* C10: every step satisfies C10_Step.
C10_VsyncFailureNonFatal == [][C10_Step]_vars

\* Active, reached by a resumed whose vsync request failed.
C10_Witness ==
    /\ event = "resumed"
    /\ phase = "running"
    /\ \E i \in 1..Len(calls) : calls[i] = "set_swap_interval:err"
    /\ IsSome(state)
    /\ exit_state = Ok
    /\ ~exit_requested

\* C11: a Resized(width, height) event calls the surface resize and sets the
\* Renderer viewport iff AppState is present and both dimensions are
\* non-zero; otherwise it makes no call and changes no part of App.
C11_Step ==
    \A ev \in WindowEvents :
        (ev.kind = "Resized" /\ Commit(window_event(App, ev))) =>
            IF IsSome(state) /\ ev.width # 0 /\ ev.height # 0
            THEN /\ calls' = <<"gl_surface.resize", "renderer.resize">>
                 /\ Unwrap(renderer').viewport = <<ev.width, ev.height>>
                 /\ phase' = "running"
            ELSE /\ calls' = <<>>
                 /\ state' = state
                 /\ gl_context' = gl_context
                 /\ renderer' = renderer
                 /\ gl_display' = gl_display
                 /\ exit_state' = exit_state
                 /\ exit_requested' = exit_requested
                 /\ phase' = "running"

\* C11: every step satisfies C11_Step.
C11_ResizeIffStateAndNonZero == [][C11_Step]_vars

\* A resize that was carried out: both calls made, the viewport set.
C11_Witness ==
    /\ event = "window_event"
    /\ calls = <<"gl_surface.resize", "renderer.resize">>
    /\ IsSome(renderer)
    /\ Unwrap(renderer).viewport # <<0, 0>>

\* The selection rule as the specification words it: the candidate replaces
\* the accumulator if it supports transparency and the accumulator does not
\* (unknown counts as not), otherwise if its sample count is strictly greater.
SpecReplaces(A, C) ==
    \/ C.transparency = "yes" /\ A.transparency \in {"no", "unknown"}
    \/ C.samples > A.samples

RECURSIVE SpecFold(_, _)
SpecFold(configs, n) ==
    IF n = 1 THEN configs[1]
    ELSE LET A == SpecFold(configs, n - 1)
         IN  IF SpecReplaces(A, configs[n]) THEN configs[n] ELSE A

ExampleConfigs ==
    <<[samples |-> 4, transparency |-> "no"],
      [samples |-> 2, transparency |-> "yes"],
      [samples |-> 8, transparency |-> "no"]>>

C13_EmptyIsAnError ==
    (pure.fn = "picker" /\ IsSome(pure.out) /\ pure.configs = <<>>) =>
        (Unwrap(pure.out).tag = "Err" /\ IsNone(Unwrap(pure.out).config))

\* C14: create_gl_context tries default, GLES, OpenGL 2.1 in that order and
\* stops at the first success: the number of attempts is the index of the
\* first profile that succeeds, the context returned is that profile's and is
\* not current, and it fails only when all three fail.
C14_FirstSuccessInOrder ==
    (pure.fn = "factory" /\ IsSome(pure.out)) =>
        LET a == pure.attempt
            r == Unwrap(pure.out).res
            made == Unwrap(pure.out).calls
            good == {i \in 1..NumProfiles : a[i]}
        IN  /\ Profiles = <<"default", "gles", "legacy21">>
            /\ Len(made) = r.tried
            /\ \A i \in 1..Len(made) :
                    made[i] = IF a[i] THEN "create_context:ok"
                              ELSE "create_context:err"
            /\ IF good = {}
               THEN ~r.ok /\ r.tried = NumProfiles
               ELSE /\ r.ok
                    /\ r.tried \in good
                    /\ \A i \in good : r.tried <= i
                    /\ r.profile = Profiles[r.tried]
                    /\ ~r.current

\* Profiles 1 and 2 fail, profile 3 succeeds: three attempts, the legacy context.
C14_Witness ==
    /\ pure.fn = "factory"
    /\ IsSome(pure.out)
    /\ Unwrap(pure.out).res.tried = 3
    /\ Unwrap(pure.out).res.profile = "legacy21"
    /\ Unwrap(pure.out).calls =
            <<"create_context:err", "create_context:err", "create_context:ok">>

\* C15: at no point, inside a handler either, are two Surfaces alive.
C15_OneSurfaceAtATime == live.peak <= 1

\* C16: the Renderer is present iff the Context has been made current at
\* least once; it is constructed once, in that resumed, and stays the same
\* Renderer through every later event.
C16_RendererOnceAndKept ==
    /\ IsSome(renderer) <=> count.currents >= 1
    /\ count.renderers = IF IsSome(renderer) THEN 1 ELSE 0
    /\ IsSome(renderer) => Unwrap(renderer).id = 1
    /\ \A j \in 1..Len(calls) :
            calls[j] = "Renderer::new"
                => (j > 1 /\ calls[j - 1] = "make_current:ok" /\ count.currents = 1)

\* The Renderer of the first resumed after a second resumed and the exit.
C16_Witness ==
    /\ phase = "exited"
    /\ count.currents = 2
    /\ count.renderers = 1
    /\ IsSome(renderer)

\* C17: suspended from Active drops the Surface, then the Window, then makes
\* the Context not-current; in suspended and in exiting a Window is dropped
\* right after its Surface, never before.
C17_SurfaceThenWindow ==
    event \in {"suspended", "exiting"} =>
        /\ \A j \in 1..Len(calls) :
              calls[j] = "drop_window" => (j > 1 /\ calls[j - 1] = "drop_surface")
        /\ \A j \in 1..Len(calls) :
              calls[j] = "drop_surface"
                  => (j < Len(calls) /\ calls[j + 1] = "drop_window")
        /\ event = "suspended" =>
              \A i, j \in 1..Len(calls) :
                  (calls[i] = "drop_window"
                   /\ calls[j] \in {"make_not_current:ok", "make_not_current:err"})
                      => i < j

\* suspended from Active, completed.
C17_Witness ==
    /\ event = "suspended"
    /\ calls = <<"drop_surface", "drop_window", "make_not_current:ok">>
    /\ IsNone(state)
    /\ ~Current

\* C18: an idle tick either makes no call and changes nothing, when AppState
\* is absent, or draws, requests the redraw and swaps, in that order, with
\* AppState present and the Context current.
C18_Step ==
    event' = "about_to_wait" =>
        IF IsSome(state)
        THEN /\ Current
             /\ Len(calls') >= 3
             /\ calls'[1] = "renderer.draw"
             /\ calls'[2] = "request_redraw"
             /\ calls'[3] \in {"swap_buffers:ok", "swap_buffers:err"}
             /\ \A j \in 4..Len(calls') : calls'[j] = "panic"
        ELSE /\ calls' = <<>>
             /\ state' = state
             /\ gl_context' = gl_context
             /\ renderer' = renderer
             /\ gl_display' = gl_display
             /\ exit_state' = exit_state
             /\ exit_requested' = exit_requested
             /\ live' = live
             /\ phase' = "running"

\* C18: every step satisfies C18_Step.
C18_TickDrawsRedrawsSwaps == [][C18_Step]_vars

\* A completed tick in Active.
C18_Witness ==
    /\ event = "about_to_wait"
    /\ calls = <<"renderer.draw", "request_redraw", "swap_buffers:ok">>
    /\ IsSome(state)
    /\ Current

\* C19: AppState present implies gl_context and renderer present, so the
\* unwraps in the resize arm and in about_to_wait cannot fail: window_event
\* never panics and about_to_wait panics only on a failed swap.
C19_UnwrapsCannotFail ==
    /\ IsSome(state) => (IsSome(gl_context) /\ IsSome(renderer))
    /\ (event = "window_event") => phase # "panicked"
    /\ (event = "about_to_wait" /\ phase = "panicked")
            => calls = <<"renderer.draw", "request_redraw", "swap_buffers:err",
                         "panic">>

\* A resize carried out after a suspended and a second resumed.
C19_Witness ==
    /\ event = "window_event"
    /\ calls # <<>>
    /\ calls[1] = "gl_surface.resize"
    /\ count.resumed = 2
    /\ phase = "running"

\* C20 as stated: a resumed that ends by recording an error leaves
\* gl_display, gl_context and renderer as they were and AppState absent.
C20_AsStatedStep ==
    (event' = "resumed" /\ lifecycle'.outcome = "err") =>
        /\ gl_display' = gl_display
        /\ gl_context' = gl_context
        /\ renderer' = renderer
        /\ state' = state
        /\ IsNone(state')

C20_Step ==
    (event' = "resumed" /\ lifecycle'.outcome = "err") =>
        /\ exit_state'.tag = "Err"
        /\ exit_requested'
        /\ gl_display' = gl_display
        /\ gl_context' = gl_context
        /\ renderer' = renderer
        /\ state' = state
        /\ live' = live
        /\ display' = display
        /\ phase' = "running"

====
